---- MODULE Spec2Model ----
(***************************************************************************)
(* Model of the Neewer PL81-Pro serial control core:                       *)
(*   protocol.rs  - the protocol codec (checksum, CCT command, Kelvin      *)
(*                  quantization, status frame parser)                     *)
(*   serial.rs    - SerialManager (connect / disconnect / write /          *)
(*                  is_connected) and the background read_loop             *)
(*   commands.rs  - set_light, the caller of write                         *)
(***************************************************************************)
EXTENDS Integers, Sequences, FiniteSets, TLC

(***************************************************************************)
(* Bounds of the model                                                     *)
(***************************************************************************)
MaxConnects == 2      \* connect calls issued by the foreground context
MaxWrites == 2        \* write calls issued by all callers together
MaxGarbage == 9       \* garbage bytes in front of a frame (>= 8 reaches accum.clear)
MaxWindows == 2       \* 8-byte windows in a window stream
WriteChunk == 4       \* bytes a short write() of the port accepts
KelvinMargin == 3     \* Kelvin values tried on each side of 2900..7000
KelvinFar == 100000   \* a Kelvin value far above the range

(***************************************************************************)
(* protocol.rs                                                             *)
(***************************************************************************)
TEMP_MIN_K == 2900
TEMP_MAX_K == 7000
TEMP_STEPS == 18
SENTINEL == 58        \* 0x3A
TAG_CCT == 2          \* 0x02
FRAME_LEN == 8
READ_BUF == 256
U16 == 65536
U8_MAX == 255
BRI_MAX == 100

Min(a, b) == IF a < b THEN a ELSE b
Max(a, b) == IF a > b THEN a ELSE b

\* the sum of the bytes as integers: what the additions of
\* data.iter().map(|&b| b as u16).sum() reach while none of them overflows
RECURSIVE SumBytes(_)
SumBytes(data) ==
    IF data = <<>> THEN 0 ELSE Head(data) + SumBytes(Tail(data))

\* the u16 sum overflows: the bytes add up to more than 65535 (more than 257
\* bytes are needed; no caller in the program passes more than 6)
Overflows(data) == SumBytes(data) >= U16

\* the panic of an addition that overflows in a build with overflow checks
Panic == << "attempt to add with overflow" >>

\* a checksum emitted low byte first
checksum_low_first(data) ==
    LET s == SumBytes(data) IN << s % 256, s \div 256 >>

\* fn checksum(data) -> [u8; 2]: u16 sum, high byte then low byte
\* When the sum overflows the outcome depends on the build: a panic with
\* overflow checks on (dev and test profiles), the wrapped sum with them off
\* (release); the result is then the set of both outcomes.
checksum(data) ==
    LET s == SumBytes(data) IN
    IF Overflows(data)
    THEN { Panic, << (s % U16) \div 256, s % 256 >> }
    ELSE << s \div 256, s % 256 >>

\* fn build_packet(payload); a panic of checksum unwinds through it
build_packet(payload) ==
    IF Overflows(payload)
    THEN { IF cs = Panic THEN Panic ELSE payload \o cs : cs \in checksum(payload) }
    ELSE payload \o checksum(payload)

\* a conversion that truncates where the code rounds
kelvin_to_byte_truncated(kelvin) ==
    LET k == Max(TEMP_MIN_K, Min(kelvin, TEMP_MAX_K))
        num == (k - TEMP_MIN_K) * TEMP_STEPS
        den == TEMP_MAX_K - TEMP_MIN_K
    IN  Min(Min(num \div den, U8_MAX), TEMP_STEPS)

\* a conversion that rounds ties to the even step
kelvin_to_byte_half_even(kelvin) ==
    LET k == Max(TEMP_MIN_K, Min(kelvin, TEMP_MAX_K))
        num == (k - TEMP_MIN_K) * TEMP_STEPS
        den == TEMP_MAX_K - TEMP_MIN_K
        q == (2 * num + den) \div (2 * den)
        tie == (2 * num + den) % (2 * den) = 0
        step == IF tie /\ q % 2 = 1 THEN q - 1 ELSE q
    IN  Min(Min(step, U8_MAX), TEMP_STEPS)

\* a conversion that does not clamp its input
kelvin_to_byte_unclamped(kelvin) ==
    LET num == (kelvin - TEMP_MIN_K) * TEMP_STEPS
        den == TEMP_MAX_K - TEMP_MIN_K
        step == Min((2 * num + den) \div (2 * den), U8_MAX)
    IN  Min(step, TEMP_STEPS)

\* fn kelvin_to_byte(kelvin): f64 round() rounds half away from zero; the
\* operand is non-negative, so round(x) = floor(x + 1/2).  `as u8` saturates.
kelvin_to_byte(kelvin) ==
    LET k == Max(TEMP_MIN_K, Min(kelvin, TEMP_MAX_K))
        num == (k - TEMP_MIN_K) * TEMP_STEPS
        den == TEMP_MAX_K - TEMP_MIN_K
        step == Min((2 * num + den) \div (2 * den), U8_MAX)
    IN  Min(step, TEMP_STEPS)

\* a conversion that wraps bytes above the last step where the code clamps
byte_to_kelvin_wrapped(b) ==
    LET bb == b % (TEMP_STEPS + 1)
    IN  TEMP_MIN_K + (bb * (TEMP_MAX_K - TEMP_MIN_K) + TEMP_STEPS \div 2) \div TEMP_STEPS

\* fn byte_to_kelvin(b)
byte_to_kelvin(b) ==
    LET bb == Min(b, TEMP_STEPS)
    IN  TEMP_MIN_K + (bb * (TEMP_MAX_K - TEMP_MIN_K) + TEMP_STEPS \div 2) \div TEMP_STEPS

\* fn cct_command(brightness, kelvin)
cct_command(brightness, kelvin) ==
    LET bri == Min(brightness, BRI_MAX)
        temp == kelvin_to_byte(kelvin)
    IN  build_packet(<< SENTINEL, TAG_CCT, 3, 1, bri, temp >>)

\* Option values: <<>> is None, <<v>> is Some(v)
None == <<>>
Some(v) == << v >>

\* a parser that checks the header and not the checksum
parse_status_unchecked(data) ==
    IF Len(data) >= FRAME_LEN /\ data[1] = SENTINEL /\ data[2] = TAG_CCT
    THEN Some(<< data[5], data[6] >>)
    ELSE None

\* a parser that returns the two bytes one place early
parse_status_shifted(data) ==
    IF Len(data) >= FRAME_LEN /\ data[1] = SENTINEL /\ data[2] = TAG_CCT
    THEN LET expected == checksum(SubSeq(data, 1, 6)) IN
         IF data[7] = expected[1] /\ data[8] = expected[2]
         THEN Some(<< data[4], data[5] >>)
         ELSE None
    ELSE None

\* fn parse_status(data) -> Option<(u8, u8)>
parse_status(data) ==
    IF Len(data) >= FRAME_LEN /\ data[1] = SENTINEL /\ data[2] = TAG_CCT
    THEN LET expected == checksum(SubSeq(data, 1, 6)) IN
         IF data[7] = expected[1] /\ data[8] = expected[2]
         THEN Some(<< data[5], data[6] >>)
         ELSE None
    ELSE None

(***************************************************************************)
(* serial.rs: frame extraction of read_loop (lines 111-132)                *)
(***************************************************************************)
\* accum.iter().position(|&b| b == 0x3A): 0-based index of the first sentinel
position(acc) ==
    IF \A i \in 1 .. Len(acc) : acc[i] # SENTINEL THEN None
    ELSE Some((CHOOSE i \in 1 .. Len(acc) :
                  acc[i] = SENTINEL /\ \A j \in 1 .. (i - 1) : acc[j] # SENTINEL) - 1)

\* accum.drain(..n)
drain(acc, n) == SubSeq(acc, n + 1, Len(acc))

\* LightStatus { brightness, kelvin } emitted as "light-status" by loop l
LightStatus(l, bri, temp_byte) ==
    [loop |-> l, name |-> "light-status", brightness |-> bri,
     kelvin |-> byte_to_kelvin(temp_byte)]

\* app.emit("serial-disconnected", ()) by loop l
SerialDisconnected(l) == [loop |-> l, name |-> "serial-disconnected"]

\* what one window does to the emitted events (lines 120-126)
emit_status(l, window, out) ==
    LET p == parse_status(window) IN
    IF p # None THEN Append(out, LightStatus(l, p[1][1], p[1][2])) ELSE out

\* a scan that drops one byte and looks for the next sentinel
consume_one(acc) == drain(acc, 1)

\* the bytes dropped once a window has been handed to the parser (line 127)
consume_window(acc) == drain(acc, FRAME_LEN)

\* a scan that keeps a buffer in which it found no sentinel
no_sentinel_kept(acc) == acc

\* a scan that keeps the last byte of a buffer in which it found no sentinel
no_sentinel_keeps_last(acc) == << acc[Len(acc)] >>

\* the branch taken when no sentinel is found (lines 128-131)
no_sentinel(acc) == <<>>

\* a scan that keeps the bytes in front of the sentinel
resync_kept(acc, start) == acc

\* lines 114-116: bytes in front of the first sentinel are dropped
resync(acc, start) == IF start > 0 THEN drain(acc, start) ELSE acc

\* while accum.len() >= 8 { ... }: returns the accumulation buffer left over
\* and the events emitted, in order
RECURSIVE extract_frames(_, _, _)
extract_frames(l, acc, out) ==
    IF Len(acc) < FRAME_LEN THEN [accum |-> acc, out |-> out]
    ELSE LET start == position(acc) IN
         IF start = None THEN [accum |-> no_sentinel(acc), out |-> out]
         ELSE LET a1 == resync(acc, start[1]) IN
              IF Len(a1) < FRAME_LEN THEN [accum |-> a1, out |-> out]
              ELSE extract_frames(l, consume_window(a1),
                                  emit_status(l, SubSeq(a1, 1, FRAME_LEN), out))

(***************************************************************************)
(* State                                                                   *)
(***************************************************************************)
VARIABLES
    port,       \* SerialManager.port: None or Some(handle)
    lock,       \* holder of the port Mutex: <<>> or <<caller>>
    reading,    \* SerialManager.reading, the AtomicBool shared by all loops
    pc,         \* position of each caller
    ret,        \* what each caller's last completed call returned
    wbuf,       \* write: bytes of the caller's packet not yet written
    wcall,      \* write: number of the caller's current write call
    nconnects,  \* connect calls started (also the handle of the latest open)
    nwrites,    \* write calls started
    wire,       \* bytes that reached a port, tagged with their write call
    lpc,        \* position of each read loop
    rd,         \* result of the loop's last port.read
    accum,      \* the loop's accumulation buffer
    stale,      \* the loop found the flag set after a later connect had cleared it
    input,      \* bytes the device has still to deliver to the loop's reader
    stream,     \* all bytes the device delivers to the loop's reader
    events,     \* events emitted to the application, in order
    cin,        \* arguments of a codec call: brightness / protocol byte, Kelvin
    cout        \* the codec function last called and the value it returned

vars == << port, lock, reading, pc, ret, wbuf, wcall, nconnects, nwrites, wire,
           lpc, rd, accum, stale, input, stream, events, cin, cout >>

callerVars == << pc, ret, wbuf, wcall, nwrites, wire >>
loopVars == << lpc, rd, accum, stale, input, stream, events >>
codecVars == << cin, cout >>
managerVars == << port, lock, reading, nconnects >>

Foreground == "fg"
Callers == { "fg", "w1" }
Loops == 1 .. MaxConnects

\* one valid status frame, as the device echoes a CCT command
EchoFrame == cct_command(50, 4950)

\* set_light arguments used by the callers
LightSettings == { << 200, 9000 >> }

\* what the device delivers to a reader in the session model
MainStreams == { EchoFrame }

NoReturn == [op |-> "none", res |-> "none"]
NoRead == [kind |-> "none", bytes |-> <<>>]
NoArgs == [b |-> 0, k |-> 0]
NoCall == [op |-> "none", val |-> 0]

Init ==
    /\ port = None
    /\ lock = <<>>
    /\ reading = FALSE
    /\ pc = [c \in Callers |-> "idle"]
    /\ ret = [c \in Callers |-> NoReturn]
    /\ wbuf = [c \in Callers |-> <<>>]
    /\ wcall = [c \in Callers |-> 0]
    /\ nconnects = 0
    /\ nwrites = 0
    /\ wire = <<>>
    /\ lpc = [l \in Loops |-> "unborn"]
    /\ rd = [l \in Loops |-> NoRead]
    /\ accum = [l \in Loops |-> <<>>]
    /\ stale = [l \in Loops |-> FALSE]
    /\ input = [l \in Loops |-> <<>>]
    /\ stream = [l \in Loops |-> <<>>]
    /\ events = <<>>
    /\ cin = NoArgs
    /\ cout = NoCall

(***************************************************************************)
(* SerialManager::connect (serial.rs 46-74), issued by the foreground      *)
(***************************************************************************)
\* line 48: self.reading.store(false)
ConnectStop(c) ==
    /\ c = Foreground
    /\ pc[c] = "idle"
    /\ nconnects < MaxConnects
    /\ reading' = FALSE
    /\ nconnects' = nconnects + 1
    /\ pc' = [pc EXCEPT ![c] = "open"]
    /\ UNCHANGED << port, lock, ret, wbuf, wcall, nwrites, wire >>
    /\ UNCHANGED loopVars
    /\ UNCHANGED codecVars

\* lines 50-56: open() succeeds
ConnectOpen(c) ==
    /\ pc[c] = "open"
    /\ pc' = [pc EXCEPT ![c] = "clone"]
    /\ UNCHANGED << port, lock, reading, ret, wbuf, wcall, nconnects, nwrites, wire >>
    /\ UNCHANGED loopVars
    /\ UNCHANGED codecVars

\* line 56: open() fails, `?` returns the error
ConnectOpenFail(c) ==
    /\ pc[c] = "open"
    /\ pc' = [pc EXCEPT ![c] = "idle"]
    /\ ret' = [ret EXCEPT ![c] = [op |-> "connect", res |-> "Failed to open"]]
    /\ UNCHANGED << port, lock, reading, wbuf, wcall, nconnects, nwrites, wire >>
    /\ UNCHANGED loopVars
    /\ UNCHANGED codecVars

\* lines 59-61: try_clone() succeeds
ConnectClone(c) ==
    /\ pc[c] = "clone"
    /\ pc' = [pc EXCEPT ![c] = "store"]
    /\ UNCHANGED << port, lock, reading, ret, wbuf, wcall, nconnects, nwrites, wire >>
    /\ UNCHANGED loopVars
    /\ UNCHANGED codecVars

\* line 61: try_clone() fails, `?` returns the error (the new port is dropped)
ConnectCloneFail(c) ==
    /\ pc[c] = "clone"
    /\ pc' = [pc EXCEPT ![c] = "idle"]
    /\ ret' = [ret EXCEPT ![c] = [op |-> "connect", res |-> "Failed to clone port"]]
    /\ UNCHANGED << port, lock, reading, wbuf, wcall, nconnects, nwrites, wire >>
    /\ UNCHANGED loopVars
    /\ UNCHANGED codecVars

\* a port that is not behind a mutex
lock_free_always == TRUE

\* Mutex::lock succeeds for a caller only while nobody holds the mutex
lock_free == lock = <<>>

\* line 63: *self.port.lock().unwrap() = Some(port)
ConnectStore(c) ==
    /\ pc[c] = "store"
    /\ lock_free
    /\ port' = Some(nconnects)
    /\ pc' = [pc EXCEPT ![c] = "spawn"]
    /\ UNCHANGED << lock, reading, ret, wbuf, wcall, nconnects, nwrites, wire >>
    /\ UNCHANGED loopVars
    /\ UNCHANGED codecVars

\* lines 66-73: reading.store(true); thread::spawn(read_loop); Ok(())
ConnectSpawn(c) ==
    /\ pc[c] = "spawn"
    /\ reading' = TRUE
    /\ \E s \in MainStreams :
          /\ input' = [input EXCEPT ![nconnects] = s]
          /\ stream' = [stream EXCEPT ![nconnects] = s]
    /\ lpc' = [lpc EXCEPT ![nconnects] = "check"]
    /\ pc' = [pc EXCEPT ![c] = "idle"]
    /\ ret' = [ret EXCEPT ![c] = [op |-> "connect", res |-> "Ok"]]
    /\ UNCHANGED << port, lock, wbuf, wcall, nconnects, nwrites, wire >>
    /\ UNCHANGED << rd, accum, stale, events >>
    /\ UNCHANGED codecVars

(***************************************************************************)
(* SerialManager::disconnect (serial.rs 91-94), issued by the foreground   *)
(***************************************************************************)
\* a disconnect that stores the wrong flag value
stop_signal_set == TRUE

\* the value line 92 stores in the liveness flag
stop_signal == FALSE

\* line 92: self.reading.store(false)
DisconnectStop(c) ==
    /\ c = Foreground
    /\ pc[c] = "idle"
    /\ reading' = stop_signal
    /\ pc' = [pc EXCEPT ![c] = "drop"]
    /\ UNCHANGED << port, lock, ret, wbuf, wcall, nconnects, nwrites, wire >>
    /\ UNCHANGED loopVars
    /\ UNCHANGED codecVars

\* a disconnect that only clears the flag and keeps the handle
dropped_port_kept == port

\* the value line 93 stores
dropped_port == None

\* line 93: *self.port.lock().unwrap() = None
DisconnectDrop(c) ==
    /\ pc[c] = "drop"
    /\ lock_free
    /\ port' = dropped_port
    /\ pc' = [pc EXCEPT ![c] = "idle"]
    /\ ret' = [ret EXCEPT ![c] = [op |-> "disconnect", res |-> "Ok"]]
    /\ UNCHANGED << lock, reading, wbuf, wcall, nconnects, nwrites, wire >>
    /\ UNCHANGED loopVars
    /\ UNCHANGED codecVars

(***************************************************************************)
(* SerialManager::is_connected (serial.rs 86-88)                           *)
(***************************************************************************)
\* a query that also asks whether a read loop is running
is_connected_loop_alive ==
    port # None /\ \E l \in DOMAIN lpc : lpc[l] \in { "check", "read", "match" }

is_connected == port # None

(***************************************************************************)
(* commands.rs set_light and SerialManager::write (serial.rs 77-83)        *)
(***************************************************************************)
\* bytes one call of the port's write() may accept out of buf (write_all loops)
WriteSizes(buf) == { Len(buf), Min(Len(buf), WriteChunk) }

tag_bytes(call, bytes) == [i \in 1 .. Len(bytes) |-> [call |-> call, byte |-> bytes[i]]]

\* lines 78-79 when the Option is None: ok_or("Port not open")? returns at once
WriteNotOpen(c, data) ==
    /\ pc[c] = "idle"
    /\ nwrites < MaxWrites
    /\ lock_free
    /\ port = None
    /\ nwrites' = nwrites + 1
    /\ wcall' = [wcall EXCEPT ![c] = nwrites + 1]
    /\ ret' = [ret EXCEPT ![c] = [op |-> "write", res |-> "Port not open"]]
    /\ UNCHANGED << port, lock, reading, pc, wbuf, nconnects, wire >>
    /\ UNCHANGED loopVars
    /\ UNCHANGED codecVars

\* lines 78-79 when the Option is Some: the guard is held until write returns
\* (write_all of an empty slice returns Ok without a write(): flush is next)
WriteLock(c, data) ==
    /\ pc[c] = "idle"
    /\ nwrites < MaxWrites
    /\ lock_free
    /\ port # None
    /\ lock' = << c >>
    /\ nwrites' = nwrites + 1
    /\ wcall' = [wcall EXCEPT ![c] = nwrites + 1]
    /\ wbuf' = [wbuf EXCEPT ![c] = data]
    /\ pc' = [pc EXCEPT ![c] = IF data = <<>> THEN "flush" ELSE "write_all"]
    /\ UNCHANGED << port, reading, ret, nconnects, wire >>
    /\ UNCHANGED loopVars
    /\ UNCHANGED codecVars

\* line 80: one round of write_all, n bytes reach the port
WriteAll(c, n) ==
    /\ pc[c] = "write_all"
    /\ n \in 1 .. Len(wbuf[c])
    /\ wire' = wire \o tag_bytes(wcall[c], SubSeq(wbuf[c], 1, n))
    /\ wbuf' = [wbuf EXCEPT ![c] = drain(wbuf[c], n)]
    /\ pc' = [pc EXCEPT ![c] = IF n = Len(wbuf[c]) THEN "flush" ELSE "write_all"]
    /\ UNCHANGED << port, lock, reading, ret, wcall, nconnects, nwrites >>
    /\ UNCHANGED loopVars
    /\ UNCHANGED codecVars

\* line 80: write_all fails, "Write failed" is returned and the guard dropped
WriteAllFail(c) ==
    /\ pc[c] = "write_all"
    /\ lock' = <<>>
    /\ wbuf' = [wbuf EXCEPT ![c] = <<>>]
    /\ pc' = [pc EXCEPT ![c] = "idle"]
    /\ ret' = [ret EXCEPT ![c] = [op |-> "write", res |-> "Write failed"]]
    /\ UNCHANGED << port, reading, wcall, nconnects, nwrites, wire >>
    /\ UNCHANGED loopVars
    /\ UNCHANGED codecVars

\* lines 81-82: flush succeeds, Ok(()) is returned and the guard dropped
WriteFlush(c) ==
    /\ pc[c] = "flush"
    /\ lock' = <<>>
    /\ pc' = [pc EXCEPT ![c] = "idle"]
    /\ ret' = [ret EXCEPT ![c] = [op |-> "write", res |-> "Ok"]]
    /\ UNCHANGED << port, reading, wbuf, wcall, nconnects, nwrites, wire >>
    /\ UNCHANGED loopVars
    /\ UNCHANGED codecVars

\* line 81: flush fails, "Flush failed" is returned and the guard dropped
WriteFlushFail(c) ==
    /\ pc[c] = "flush"
    /\ lock' = <<>>
    /\ pc' = [pc EXCEPT ![c] = "idle"]
    /\ ret' = [ret EXCEPT ![c] = [op |-> "write", res |-> "Flush failed"]]
    /\ UNCHANGED << port, reading, wbuf, wcall, nconnects, nwrites, wire >>
    /\ UNCHANGED loopVars
    /\ UNCHANGED codecVars

\* commands.rs 33-36: set_light(brightness, kelvin) writes cct_command
set_light(c, brightness, kelvin) ==
    \/ WriteNotOpen(c, cct_command(brightness, kelvin))
    \/ WriteLock(c, cct_command(brightness, kelvin))

(***************************************************************************)
(* read_loop (serial.rs 98-142)                                            *)
(***************************************************************************)
\* line 106: while running.load()
LoopCheck(l) ==
    /\ lpc[l] = "check"
    /\ IF reading
       THEN /\ lpc' = [lpc EXCEPT ![l] = "read"]
            /\ stale' = [stale EXCEPT ![l] = (nconnects > l)]
       ELSE /\ lpc' = [lpc EXCEPT ![l] = "stopped"]
            /\ UNCHANGED stale
    /\ UNCHANGED << rd, accum, input, stream, events >>
    /\ UNCHANGED << port, lock, reading, nconnects >>
    /\ UNCHANGED callerVars
    /\ UNCHANGED codecVars

\* line 107: port.read(&mut buf) returns Ok(n), n > 0 bytes of what the device sent
LoopReadOk(l, n) ==
    /\ lpc[l] = "read"
    /\ n \in 1 .. Min(Len(input[l]), READ_BUF)
    /\ rd' = [rd EXCEPT ![l] = [kind |-> "ok", bytes |-> SubSeq(input[l], 1, n)]]
    /\ input' = [input EXCEPT ![l] = drain(input[l], n)]
    /\ lpc' = [lpc EXCEPT ![l] = "match"]
    /\ UNCHANGED << accum, stale, stream, events >>
    /\ UNCHANGED << port, lock, reading, nconnects >>
    /\ UNCHANGED callerVars
    /\ UNCHANGED codecVars

\* line 107: port.read returns Ok(0), a timeout, or another error
LoopReadOther(l, kind) ==
    /\ lpc[l] = "read"
    /\ rd' = [rd EXCEPT ![l] = [kind |-> kind, bytes |-> <<>>]]
    /\ lpc' = [lpc EXCEPT ![l] = "match"]
    /\ UNCHANGED << accum, stale, input, stream, events >>
    /\ UNCHANGED << port, lock, reading, nconnects >>
    /\ UNCHANGED callerVars
    /\ UNCHANGED codecVars

LoopReadZero(l) == LoopReadOther(l, "ok")
LoopReadTimeout(l) == LoopReadOther(l, "timeout")
LoopReadError(l) == LoopReadOther(l, "error")

\* lines 108-133: Ok(n) if n > 0
LoopOk(l) ==
    /\ lpc[l] = "match"
    /\ rd[l].kind = "ok" /\ Len(rd[l].bytes) > 0
    /\ LET r == extract_frames(l, accum[l] \o rd[l].bytes, <<>>) IN
          /\ accum' = [accum EXCEPT ![l] = r.accum]
          /\ events' = events \o r.out
    /\ lpc' = [lpc EXCEPT ![l] = "check"]
    /\ rd' = [rd EXCEPT ![l] = NoRead]
    /\ UNCHANGED << stale, input, stream >>
    /\ UNCHANGED << port, lock, reading, nconnects >>
    /\ UNCHANGED callerVars
    /\ UNCHANGED codecVars

\* a loop that reads again without polling the flag
after_idle_read_no_poll == "read"

\* where the loop goes after a read that timed out or returned Ok(0)
after_idle_read == "check"

\* line 134 (TimedOut => continue) and line 139 (_ => continue)
LoopContinue(l) ==
    /\ lpc[l] = "match"
    /\ \/ rd[l].kind = "timeout"
       \/ rd[l].kind = "ok" /\ Len(rd[l].bytes) = 0
    /\ lpc' = [lpc EXCEPT ![l] = after_idle_read]
    /\ rd' = [rd EXCEPT ![l] = NoRead]
    /\ UNCHANGED << accum, stale, input, stream, events >>
    /\ UNCHANGED << port, lock, reading, nconnects >>
    /\ UNCHANGED callerVars
    /\ UNCHANGED codecVars

\* a loop that keeps polling after a read error
after_read_error_continue == "check"

\* where the loop goes after any other read error
after_read_error == "failed"

\* lines 135-138: Err(_) => emit "serial-disconnected"; break
LoopFail(l) ==
    /\ lpc[l] = "match"
    /\ rd[l].kind = "error"
    /\ events' = Append(events, SerialDisconnected(l))
    /\ lpc' = [lpc EXCEPT ![l] = after_read_error]
    /\ rd' = [rd EXCEPT ![l] = NoRead]
    /\ UNCHANGED << accum, stale, input, stream >>
    /\ UNCHANGED << port, lock, reading, nconnects >>
    /\ UNCHANGED callerVars
    /\ UNCHANGED codecVars

(***************************************************************************)
(* The session: callers and read loops interleave                          *)
(***************************************************************************)
CallsNext ==
    \/ \E c \in Callers : ConnectStop(c)
    \/ \E c \in Callers : ConnectOpen(c)
    \/ \E c \in Callers : ConnectOpenFail(c)
    \/ \E c \in Callers : ConnectClone(c)
    \/ \E c \in Callers : ConnectCloneFail(c)
    \/ \E c \in Callers : ConnectStore(c)
    \/ \E c \in Callers : ConnectSpawn(c)
    \/ \E c \in Callers : DisconnectStop(c)
    \/ \E c \in Callers : DisconnectDrop(c)
    \/ \E c \in Callers, s \in LightSettings : set_light(c, s[1], s[2])
    \/ \E c \in Callers, n \in 1 .. FRAME_LEN : n \in WriteSizes(wbuf[c]) /\ WriteAll(c, n)
    \/ \E c \in Callers : WriteAllFail(c)
    \/ \E c \in Callers : WriteFlush(c)
    \/ \E c \in Callers : WriteFlushFail(c)

LoopsNext ==
    \/ \E l \in Loops : LoopCheck(l)
    \/ \E l \in Loops : LoopReadOk(l, Len(input[l]))
    \/ \E l \in Loops : LoopReadZero(l)
    \/ \E l \in Loops : LoopReadTimeout(l)
    \/ \E l \in Loops : LoopReadError(l)
    \/ \E l \in Loops : LoopOk(l)
    \/ \E l \in Loops : LoopContinue(l)
    \/ \E l \in Loops : LoopFail(l)

Next == CallsNext \/ LoopsNext

Spec == Init /\ [][Next]_vars

\* The calls alone.  No step of a read loop reads or writes port, lock, wire
\* or a caller's state, and no call reads a loop's state, so the calls behave
\* here as they do in Spec; spawned loops simply are not scheduled.
SpecCalls == Init /\ [][CallsNext]_vars

(***************************************************************************)
(* One read loop on a byte stream, split across reads in every way         *)
(***************************************************************************)
\* a status frame as the device sends it: 3A 02 03 01 bri temp cs_hi cs_lo
StatusFrame(bri, temp) == build_packet(<< SENTINEL, TAG_CCT, 3, 1, bri, temp >>)

\* noise bytes, none of them the sentinel
GarbageBytes == { 0, 2, 255 }
Garbage(len, g1, g2) == [i \in 1 .. len |-> IF i % 2 = 1 THEN g1 ELSE g2]
Garbages == { Garbage(len, g1, g2) : len \in 0 .. MaxGarbage, g1 \in GarbageBytes, g2 \in GarbageBytes }

\* checksum-valid frames: an echo, one with the sentinel as brightness, one
\* with brightness and temperature bytes beyond the ranges the light uses
ValidFrames == { StatusFrame(50, 9), StatusFrame(SENTINEL, 18), StatusFrame(200, 30) }

ResyncStreams == { g \o f : g \in Garbages, f \in ValidFrames }

\* 8-byte windows that begin with the sentinel: valid ones, a corrupted
\* checksum, a foreign tag with a correct checksum, a run of sentinels
BadSum(f) == [f EXCEPT ![8] = (f[8] + 1) % 256]
Windows == ValidFrames \cup
           { BadSum(StatusFrame(50, 9)),
             build_packet(<< SENTINEL, 3, 3, 1, 50, 9 >>),
             [i \in 1 .. FRAME_LEN |-> SENTINEL] }

RECURSIVE WindowStreamsOf(_)
WindowStreamsOf(n) ==
    IF n = 0 THEN { <<>> }
    ELSE LET shorter == WindowStreamsOf(n - 1) IN
         shorter \cup { s \o w : s \in { t \in shorter : Len(t) = (n - 1) * FRAME_LEN },
                                 w \in Windows }
WindowStreams == WindowStreamsOf(MaxWindows) \ { <<>> }

\* noise that fills a buffer of 7 kept bytes and one whole read, then a frame
LongStreams == { Garbage(FRAME_LEN - 1 + READ_BUF, 0, 255) \o EchoFrame }

Streams == ResyncStreams \cup WindowStreams \cup LongStreams

\* the state after a first successful connect whose device will send s
StreamInit ==
    /\ port = Some(1)
    /\ lock = <<>>
    /\ reading = TRUE
    /\ pc = [c \in Callers |-> "idle"]
    /\ ret = [c \in Callers |-> IF c = Foreground
                                THEN [op |-> "connect", res |-> "Ok"] ELSE NoReturn]
    /\ wbuf = [c \in Callers |-> <<>>]
    /\ wcall = [c \in Callers |-> 0]
    /\ nconnects = 1
    /\ nwrites = 0
    /\ wire = <<>>
    /\ lpc = [l \in Loops |-> IF l = 1 THEN "check" ELSE "unborn"]
    /\ rd = [l \in Loops |-> NoRead]
    /\ accum = [l \in Loops |-> <<>>]
    /\ stale = [l \in Loops |-> FALSE]
    /\ \E s \in Streams :
          /\ input = [l \in Loops |-> IF l = 1 THEN s ELSE <<>>]
          /\ stream = [l \in Loops |-> IF l = 1 THEN s ELSE <<>>]
    /\ events = <<>>
    /\ cin = NoArgs
    /\ cout = NoCall

StreamNext ==
    \/ \E l \in Loops : LoopCheck(l)
    \/ \E l \in Loops, n \in 1 .. READ_BUF : LoopReadOk(l, n)
    \/ \E l \in Loops : LoopReadZero(l)
    \/ \E l \in Loops : LoopReadTimeout(l)
    \/ \E l \in Loops : LoopReadError(l)
    \/ \E l \in Loops : LoopOk(l)
    \/ \E l \in Loops : LoopContinue(l)
    \/ \E l \in Loops : LoopFail(l)

SpecStream == StreamInit /\ [][StreamNext]_vars

(***************************************************************************)
(* Properties of the session                                               *)
(***************************************************************************)
InBody(l) == lpc[l] \in { "read", "match" }
Writing(c) == pc[c] \in { "write_all", "flush" }
AfterDisconnect == pc[Foreground] = "idle" /\ ret[Foreground].op = "disconnect"
AfterFailedConnect ==
    /\ pc[Foreground] = "idle"
    /\ ret[Foreground].op = "connect"
    /\ ret[Foreground].res # "Ok"
NotOpenError == [op |-> "write", res |-> "Port not open"]

\* C1: at most one read loop is active: a loop of an earlier connect never
\* runs its body (read, decode, publish) together with the loop of a later
\* connect after finding the liveness flag set again, i.e. it observes the
\* stop signal of the later connect.
C1_AtMostOneReadLoop ==
    \A l1 \in Loops, l2 \in Loops :
        (l1 < l2 /\ InBody(l1) /\ InBody(l2)) => ~stale[l1]

\* C2: whenever connect has returned an error, the manager is Disconnected:
\* is_connected() is false and the liveness flag is cleared, whatever the
\* state was before the call.
C2_FailedConnectIsDisconnected ==
    AfterFailedConnect => (~is_connected /\ ~reading)

\* C3: right after disconnect(), is_connected() is false, and a write issued
\* then fails with "Port not open", sends no byte and changes neither the
\* stored handle nor the liveness flag nor the mutex.
C3_DisconnectedThenWriteFails ==
    /\ [](AfterDisconnect => ~is_connected)
    /\ [][(AfterDisconnect /\ nwrites' # nwrites) =>
            /\ \E c \in Callers :
                  /\ pc[c] = "idle" /\ pc'[c] = "idle"
                  /\ wcall'[c] = nwrites'
                  /\ ret'[c] = NotOpenError
            /\ wire' = wire
            /\ port' = port
            /\ reading' = reading
            /\ lock' = lock]_vars

\* C3 witness: a first write put its 8 bytes on the wire, the foreground
\* disconnected, and the second write, by the other caller, was refused.
C3_Witness ==
    /\ AfterDisconnect
    /\ Len(wire) = FRAME_LEN
    /\ nwrites = 2
    /\ wcall["w1"] = 2
    /\ pc["w1"] = "idle"
    /\ ret["w1"] = NotOpenError

DisconnectStep ==
    \/ pc[Foreground] = "idle" /\ pc'[Foreground] = "drop"
    \/ pc[Foreground] = "drop" /\ pc'[Foreground] = "idle"

\* C4: disconnect() is idempotent: after a disconnect the handle is absent and
\* the flag cleared; a second disconnect in a row returns normally and changes
\* neither; on a manager that never connected disconnect changes neither.
C4_DisconnectIdempotent ==
    /\ [](AfterDisconnect => (port = None /\ ~reading))
    /\ [][((ret[Foreground].op = "disconnect" \/ nconnects = 0) /\ DisconnectStep) =>
            /\ port' = port
            /\ reading' = reading
            /\ (pc'[Foreground] = "idle" =>
                    ret'[Foreground] = [op |-> "disconnect", res |-> "Ok"])]_vars

\* C4 witness: after a connection was made and dropped, the foreground is
\* inside its second disconnect in a row (the flag store done, the handle
\* store pending).
C4_Witness ==
    /\ nconnects > 0
    /\ ret[Foreground].op = "disconnect"
    /\ pc[Foreground] = "drop"
    /\ port = None
    /\ \E l \in Loops : lpc[l] # "unborn"

\* C9: writes are mutually exclusive: at most one caller is between its
\* write_all and the end of its flush, it holds the mutex on a stored handle,
\* the stored handle does not change meanwhile (a disconnect or connect waits),
\* and the bytes of each write call are contiguous on the wire.
C9_WritesSerialized ==
    /\ [](/\ Cardinality({ c \in Callers : Writing(c) }) <= 1
          /\ \A c \in Callers : Writing(c) => (lock = << c >> /\ port # None)
          /\ \A i \in 1 .. Len(wire), k \in 1 .. Len(wire) :
                (i < k /\ wire[i].call = wire[k].call) =>
                    \A j \in i .. k : wire[j].call = wire[i].call)
    /\ [][(\E c \in Callers : Writing(c)) => port' = port]_vars

\* C9 witness: the second write call is in the middle of its packet while the
\* foreground's disconnect waits for the mutex; the first call's packet is
\* complete on the wire.
C9_Witness ==
    /\ pc[Foreground] = "drop"
    /\ pc["w1"] = "write_all"
    /\ wcall["w1"] = 2
    /\ Len(wire) > FRAME_LEN
    /\ Len(wbuf["w1"]) > 0

(***************************************************************************)
(* Properties of the read loop on a stream                                 *)
(***************************************************************************)
\* bytes the loop's reads have returned so far
Delivered(l) == Len(stream[l]) - Len(input[l])
\* every byte a read returned has been through the frame extraction
Settled(l) == ~(lpc[l] = "match" /\ rd[l].kind = "ok" /\ Len(rd[l].bytes) > 0)
\* the whole stream has been read and processed
Processed(l) == input[l] = <<>> /\ Settled(l)

StatusEvents(l) ==
    SelectSeq(events, LAMBDA e : e.loop = l /\ e.name = "light-status")
DisconnectedEvents(l) ==
    SelectSeq(events, LAMBDA e : e.loop = l /\ e.name = "serial-disconnected")

\* a validated frame, stated on the wire format: sentinel, CCT tag, and the
\* last two bytes the big-endian 16-bit sum of the first six
IsValidFrame(w) ==
    /\ Len(w) = FRAME_LEN
    /\ w[1] = 58
    /\ w[2] = 2
    /\ w[7] * 256 + w[8] = (w[1] + w[2] + w[3] + w[4] + w[5] + w[6]) % 65536

\* the Light Status a frame stands for
StatusOf(l, w) ==
    [loop |-> l, name |-> "light-status", brightness |-> w[5],
     kelvin |-> byte_to_kelvin(w[6])]

LastFrame(s) == SubSeq(s, Len(s) - FRAME_LEN + 1, Len(s))

\* C5: resynchronization: on garbage (no sentinel in it) followed by one valid
\* frame, split across reads in any way and with timeouts and empty reads in
\* between, the loop publishes nothing but that frame's status, and once the
\* stream is processed it has published it exactly once and holds no byte.
C5_Resynchronizes ==
    stream[1] \in ResyncStreams =>
        LET expected == StatusOf(1, LastFrame(stream[1])) IN
        /\ StatusEvents(1) \in { <<>>, << expected >> }
        /\ Processed(1) => (StatusEvents(1) = << expected >> /\ accum[1] = <<>>)

\* C5 witness: at least 8 garbage bytes, then the frame, all processed by a
\* loop that is still polling.
C5_Witness ==
    /\ stream[1] \in ResyncStreams
    /\ Len(stream[1]) >= 2 * FRAME_LEN
    /\ Processed(1)
    /\ lpc[1] = "read"
    /\ Len(StatusEvents(1)) = 1

\* the statuses of the valid windows among the first n windows of s, in order
RECURSIVE WindowStatuses(_, _, _)
WindowStatuses(l, s, n) ==
    IF n = 0 THEN <<>>
    ELSE LET w == SubSeq(s, (n - 1) * FRAME_LEN + 1, n * FRAME_LEN)
             before == WindowStatuses(l, s, n - 1)
         IN  IF IsValidFrame(w) THEN Append(before, StatusOf(l, w)) ELSE before

\* C6: on a stream of 8-byte windows that each begin with the sentinel, under
\* any split across reads: whenever the bytes read so far are processed, the
\* buffer holds exactly the bytes of the window in progress (8 bytes were
\* consumed per complete window, valid or not) and the statuses published are
\* those of the valid complete windows, one each, in stream order.
C6_WindowsConsumed ==
    (stream[1] \in WindowStreams /\ Settled(1)) =>
        LET n == Delivered(1) \div FRAME_LEN IN
        /\ accum[1] = SubSeq(stream[1], n * FRAME_LEN + 1, Delivered(1))
        /\ StatusEvents(1) = WindowStatuses(1, stream[1], n)

\* C6 witness: a checksum-corrupted window followed by a valid frame, both
\* processed: one status, that of the second window.
C6_Witness ==
    /\ stream[1] = BadSum(StatusFrame(50, 9)) \o StatusFrame(SENTINEL, 18)
    /\ Processed(1)
    /\ StatusEvents(1) = << StatusOf(1, StatusFrame(SENTINEL, 18)) >>

\* C7: every Light Status published has brightness in 0..100 and colour
\* temperature in 2900..7000 K.
C7_StatusInRange ==
    \A i \in 1 .. Len(events) :
        events[i].name = "light-status" =>
            /\ events[i].brightness \in 0 .. 100
            /\ events[i].kelvin \in 2900 .. 7000

\* every contiguous piece of s of at most 9 bytes
ShortPieces(s) ==
    { SubSeq(s, i, Min(i + n - 1, Len(s))) : i \in 1 .. Len(s), n \in 0 .. FRAME_LEN + 1 }

\* C8: a status is published only from a validated frame: each published
\* status is that of 8 consecutive received bytes forming a valid frame; and
\* parse_status gives a result exactly for data whose first 8 bytes are a
\* valid frame (none for shorter data, another header, a checksum mismatch),
\* the result being bytes 4 and 5.
C8_OnlyValidatedFrames ==
    /\ \A i \in 1 .. Len(events) :
          events[i].name = "light-status" =>
             \E j \in 1 .. Delivered(1) - FRAME_LEN + 1 :
                LET w == SubSeq(stream[1], j, j + FRAME_LEN - 1) IN
                IsValidFrame(w) /\ events[i] = StatusOf(1, w)
    /\ Delivered(1) = 0 =>
          \A d \in ShortPieces(stream[1]) :
             IF Len(d) >= FRAME_LEN /\ IsValidFrame(SubSeq(d, 1, FRAME_LEN))
             THEN parse_status(d) = Some(<< d[5], d[6] >>)
             ELSE parse_status(d) = None

\* C8 witness: a window with a foreign tag and a correct checksum, then a
\* valid frame, both processed: only the second was published.
C8_Witness ==
    /\ stream[1] = build_packet(<< SENTINEL, 3, 3, 1, 50, 9 >>) \o StatusFrame(50, 9)
    /\ Processed(1)
    /\ Len(events) = 1
    /\ events[1] = StatusOf(1, StatusFrame(50, 9))

EventsOf(l) == SelectSeq(events, LAMBDA e : e.loop = l)
LoopLeavesMatch(l) == lpc[l] = "match" /\ lpc'[l] # "match"

\* C10: a read error other than a timeout makes the loop publish
\* "serial-disconnected" once and exit: the event is its last, the loop takes
\* no further step and the stored port is not replaced by it; a timeout or an
\* empty read publishes nothing and takes the loop back to its polling point.
C10_ReadErrorEndsLoop ==
    /\ [](\A l \in Loops :
            /\ Len(DisconnectedEvents(l)) <= 1
            /\ (lpc[l] = "failed") = (Len(DisconnectedEvents(l)) = 1)
            /\ lpc[l] = "failed" =>
                  LET mine == EventsOf(l) IN mine[Len(mine)] = SerialDisconnected(l))
    /\ [][\A l \in Loops :
            /\ (LoopLeavesMatch(l) /\ rd[l].kind = "error") =>
                  /\ lpc'[l] = "failed"
                  /\ events' = Append(events, SerialDisconnected(l))
                  /\ port' = port /\ nconnects' = nconnects
            /\ (LoopLeavesMatch(l) /\ (rd[l].kind = "timeout"
                                       \/ (rd[l].kind = "ok" /\ rd[l].bytes = <<>>))) =>
                  /\ lpc'[l] = "check"
                  /\ events' = events
            /\ lpc[l] = "failed" =>
                  /\ lpc'[l] = "failed"
                  /\ EventsOf(l)' = EventsOf(l)]_vars

\* C10 witness: the loop decoded a frame, then a read failed: the loop has
\* exited with "serial-disconnected" as its last event.
C10_Witness ==
    /\ lpc[1] = "failed"
    /\ Len(events) = 2
    /\ events[1].name = "light-status"
    /\ events[2] = SerialDisconnected(1)

(***************************************************************************)
(* Connection lifecycle and read loops, with the loops scheduled fairly    *)
(***************************************************************************)
LifecycleNext ==
    \/ \E c \in Callers : ConnectStop(c)
    \/ \E c \in Callers : ConnectOpen(c)
    \/ \E c \in Callers : ConnectOpenFail(c)
    \/ \E c \in Callers : ConnectClone(c)
    \/ \E c \in Callers : ConnectCloneFail(c)
    \/ \E c \in Callers : ConnectStore(c)
    \/ \E c \in Callers : ConnectSpawn(c)
    \/ \E c \in Callers : DisconnectStop(c)
    \/ \E c \in Callers : DisconnectDrop(c)

LifeNext == LifecycleNext \/ LoopsNext

\* any step of read loop l
LoopStep(l) ==
    \/ LoopCheck(l)
    \/ LoopReadOk(l, Len(input[l]))
    \/ LoopReadZero(l)
    \/ LoopReadTimeout(l)
    \/ LoopReadError(l)
    \/ LoopOk(l)
    \/ LoopContinue(l)
    \/ LoopFail(l)

\* The calls that open and close the connection, and the loops.  Each spawned
\* loop is its own thread and port.read returns within its 100 ms timeout,
\* so a loop that can take a step eventually takes one.
SpecLife == Init /\ [][LifeNext]_vars /\ \A l \in Loops : WF_vars(LoopStep(l))

Active(l) == lpc[l] \in { "check", "read", "match" }
Exited(l) == lpc[l] \in { "stopped", "failed" }

\* C11: cooperative cancellation: once disconnect() has returned while read
\* loops are running, every one of them eventually exits (no loop is left
\* running), unless a later connect sets the liveness flag again first.
C11_DisconnectStopsLoop ==
    (AfterDisconnect /\ \E l \in Loops : Active(l))
        ~> ((\A l \in Loops : ~Active(l)) \/ reading)

\* C11 witness: the loop was in its body when disconnect returned, and has
\* left through the cleared flag.
C11_Witness ==
    /\ AfterDisconnect
    /\ ~reading
    /\ nconnects = 1
    /\ lpc[1] = "stopped"
    /\ events # <<>>

(***************************************************************************)
(* The codec functions of protocol.rs, called on drawn arguments           *)
(***************************************************************************)
\* every Kelvin value of the range and a margin, zero and a far value
KelvinAll == ((TEMP_MIN_K - KelvinMargin) .. (TEMP_MAX_K + KelvinMargin)) \cup { 0, KelvinFar }
\* range ends, their neighbours, the middle and the two exact ties
KelvinSamples == { 0, 2899, 2900, 2901, 3925, 4950, 5975, 6999, 7000, 7001, KelvinFar }
BrightnessSamples == { 0, 50, 100, 101, 255 }

CodecArgs ==
    { [b |-> b, k |-> k] : b \in 0 .. U8_MAX, k \in KelvinSamples } \cup
    { [b |-> b, k |-> k] : b \in BrightnessSamples, k \in KelvinAll }

CodecInit ==
    /\ port = None
    /\ lock = <<>>
    /\ reading = FALSE
    /\ pc = [c \in Callers |-> "idle"]
    /\ ret = [c \in Callers |-> NoReturn]
    /\ wbuf = [c \in Callers |-> <<>>]
    /\ wcall = [c \in Callers |-> 0]
    /\ nconnects = 0
    /\ nwrites = 0
    /\ wire = <<>>
    /\ lpc = [l \in Loops |-> "unborn"]
    /\ rd = [l \in Loops |-> NoRead]
    /\ accum = [l \in Loops |-> <<>>]
    /\ stale = [l \in Loops |-> FALSE]
    /\ input = [l \in Loops |-> <<>>]
    /\ stream = [l \in Loops |-> <<>>]
    /\ events = <<>>
    /\ cin \in CodecArgs
    /\ cout = NoCall

Returns(op, val) ==
    /\ cout' = [op |-> op, val |-> val]
    /\ UNCHANGED cin
    /\ UNCHANGED managerVars
    /\ UNCHANGED callerVars
    /\ UNCHANGED loopVars

\* cct_command(brightness, kelvin)
CallCctCommand ==
    /\ cout.op = "none"
    /\ Returns("cct_command", cct_command(cin.b, cin.k))

\* parse_status(&pkt) on the packet cct_command returned (tests::test_parse_status)
CallParseStatus ==
    /\ cout.op = "cct_command"
    /\ Returns("parse_status", parse_status(cout.val))

\* kelvin_to_byte(kelvin)
CallKelvinToByte ==
    /\ cout.op = "none"
    /\ Returns("kelvin_to_byte", kelvin_to_byte(cin.k))

\* byte_to_kelvin(b)
CallByteToKelvin ==
    /\ cout.op = "none"
    /\ Returns("byte_to_kelvin", byte_to_kelvin(cin.b))

\* kelvin_to_byte(byte_to_kelvin(b))
CallKelvinToByteOfResult ==
    /\ cout.op = "byte_to_kelvin"
    /\ Returns("byte_to_kelvin,kelvin_to_byte", kelvin_to_byte(cout.val))

\* byte_to_kelvin(kelvin_to_byte(kelvin))
CallByteToKelvinOfResult ==
    /\ cout.op = "kelvin_to_byte"
    /\ Returns("kelvin_to_byte,byte_to_kelvin", byte_to_kelvin(cout.val))

CodecNext ==
    \/ CallCctCommand
    \/ CallParseStatus
    \/ CallKelvinToByte
    \/ CallByteToKelvin
    \/ CallKelvinToByteOfResult
    \/ CallByteToKelvinOfResult

SpecCodec == CodecInit /\ [][CodecNext]_vars

\* C12: cct_command(b, k) is the 8 bytes 3A 02 03 01 min(b,100)
\* kelvin_to_byte(k) cs_hi cs_lo, where cs_hi*256 + cs_lo is the sum of the
\* six bytes before them modulo 2^16.
C12_CctCommandFormat ==
    cout.op = "cct_command" =>
        LET p == cout.val IN
        /\ Len(p) = 8
        /\ p[1] = 58 /\ p[2] = 2 /\ p[3] = 3 /\ p[4] = 1
        /\ p[5] = (IF cin.b > 100 THEN 100 ELSE cin.b)
        /\ p[6] = kelvin_to_byte(cin.k)
        /\ p[7] \in 0 .. 255 /\ p[8] \in 0 .. 255
        /\ p[7] * 256 + p[8] = (p[1] + p[2] + p[3] + p[4] + p[5] + p[6]) % 65536

\* C12 witness: brightness 255 is capped, 4950 K is step 9: the packet of
\* tests::test_checksum
C12_Witness ==
    /\ cin = [b |-> 255, k |-> 4950]
    /\ cout = [op |-> "cct_command", val |-> << 58, 2, 3, 1, 100, 9, 0, 173 >>]

\* C13: for brightness 0..100, parse_status of the packet cct_command built
\* returns Some((brightness, kelvin_to_byte(kelvin))).
C13_EncodeParseRoundTrip ==
    (cout.op = "parse_status" /\ cin.b <= 100) =>
        cout.val = << << cin.b, kelvin_to_byte(cin.k) >> >>

\* C13 witness: the case of tests::test_parse_status
C13_Witness ==
    /\ cin = [b |-> 50, k |-> 4950]
    /\ cout = [op |-> "parse_status", val |-> << << 50, 9 >> >>]

\* C14: for every protocol byte b in 0..18, kelvin_to_byte(byte_to_kelvin(b))
\* is b; byte_to_kelvin(0) = 2900, byte_to_kelvin(18) = 7000,
\* kelvin_to_byte(2900) = 0 and kelvin_to_byte(7000) = 18.
C14_ByteRoundTrip ==
    /\ (cout.op = "byte_to_kelvin,kelvin_to_byte" /\ cin.b \in 0 .. 18) => cout.val = cin.b
    /\ (cout.op = "byte_to_kelvin" /\ cin.b = 0) => cout.val = 2900
    /\ (cout.op = "byte_to_kelvin" /\ cin.b = 18) => cout.val = 7000
    /\ (cout.op = "kelvin_to_byte" /\ cin.k = 2900) => cout.val = 0
    /\ (cout.op = "kelvin_to_byte" /\ cin.k = 7000) => cout.val = 18

\* C14 witness: step 4, whose Kelvin value 3811 lies below the exact 3811.1
C14_Witness ==
    /\ cin.b = 4
    /\ cout = [op |-> "byte_to_kelvin,kelvin_to_byte", val |-> 4]

Distance(a, b) == IF a < b THEN b - a ELSE a - b

\* C15: for k in 2900..7000, byte_to_kelvin(kelvin_to_byte(k)) is within one
\* quantization step (228 K) of k; for k outside, it is the clamped end.
C15_KelvinRoundTrip ==
    cout.op = "kelvin_to_byte,byte_to_kelvin" =>
        IF cin.k < 2900 THEN cout.val = 2900
        ELSE IF cin.k > 7000 THEN cout.val = 7000
        ELSE Distance(cout.val, cin.k) <= 228

\* C15 witness: 3014 K is quantized up to step 1, 3128 K
C15_Witness ==
    /\ cin.k = 3014
    /\ cout = [op |-> "kelvin_to_byte,byte_to_kelvin", val |-> 3128]

\* C16: kelvin_to_byte(k) is the round-half-up value s of
\* (clamp(k) - 2900) * 18 / 4100: s is in 0..18 and
\* s - 1/2 <= (clamp(k) - 2900) * 18 / 4100 < s + 1/2; so 4950 K gives 9 and
\* the exact ties 3925 K and 5975 K give 5 and 14.
C16_RoundHalfUp ==
    cout.op = "kelvin_to_byte" =>
        LET kc == IF cin.k < 2900 THEN 2900 ELSE IF cin.k > 7000 THEN 7000 ELSE cin.k
            x36 == 36 * (kc - 2900)
            sv == cout.val
        IN  /\ sv \in 0 .. 18
            /\ 8200 * sv - 4100 <= x36
            /\ x36 < 8200 * sv + 4100
            /\ cin.k = 4950 => sv = 9
            /\ cin.k = 3925 => sv = 5
            /\ cin.k = 5975 => sv = 14

\* C16 witness: the tie 3925 K (4.5) rounds up to 5
C16_Witness ==
    /\ cin.k = 3925
    /\ cout = [op |-> "kelvin_to_byte", val |-> 5]

\* C17: both conversions are non-decreasing: kelvin_to_byte(k) is at most
\* kelvin_to_byte of the next Kelvin value and of every larger sample;
\* byte_to_kelvin(b) is at most byte_to_kelvin of every larger byte up to
\* 255, and strictly below it for b < b2 <= 18.
C17_Monotonic ==
    /\ cout.op = "kelvin_to_byte" =>
          \A k2 \in KelvinSamples \cup { cin.k + 1 } :
             cin.k <= k2 => cout.val <= kelvin_to_byte(k2)
    /\ cout.op = "byte_to_kelvin" =>
          \A b2 \in 0 .. 255 :
             /\ cin.b <= b2 => cout.val <= byte_to_kelvin(b2)
             /\ (cin.b < b2 /\ b2 <= 18) => cout.val < byte_to_kelvin(b2)

\* C17 witness: byte 19, the first above the last step, maps to 7000 K
C17_Witness ==
    /\ cin.b = 19
    /\ cout = [op |-> "byte_to_kelvin", val |-> 7000]

\* the step in which loop l puts a non-empty read through the extraction
\* (lines 109-132)
ProcessesRead(l) ==
    /\ lpc[l] = "match" /\ rd[l].kind = "ok" /\ Len(rd[l].bytes) > 0
    /\ lpc'[l] = "check"
\* the accumulation buffer of that step once the read is appended (line 109)
Extended(l) == accum[l] \o rd[l].bytes

\* C18 as stated: when the loop has processed a successful read and the
\* accumulation buffer held no sentinel, the buffer is empty afterwards,
\* whatever its length was.
C18_NoSentinelDiscardsAll ==
    [][\A l \in Loops :
          (ProcessesRead(l) /\ position(Extended(l)) = None) => accum'[l] = <<>>]_vars

\* C18 amended: when the loop has processed a successful read and the
\* accumulation buffer held no sentinel, then a buffer of 8 bytes or more is
\* empty afterwards, a buffer of fewer than 8 bytes is kept whole, and in both
\* cases nothing is published.
C18_NoSentinelDiscardsFullBuffer ==
    [][\A l \in Loops :
          (ProcessesRead(l) /\ position(Extended(l)) = None) =>
              /\ Len(Extended(l)) >= 8 => accum'[l] = <<>>
              /\ Len(Extended(l)) < 8 => accum'[l] = Extended(l)
              /\ events' = events]_vars

\* C18 witness: nine bytes of noise have been read and processed, the first
\* eight were discarded together and the ninth, read after them, is kept.
C18_Witness ==
    /\ Settled(1) /\ lpc[1] = "check"
    /\ Delivered(1) = 9
    /\ position(SubSeq(stream[1], 1, 9)) = None
    /\ accum[1] = SubSeq(stream[1], 9, 9)
    /\ events = <<>>

\* C20: whenever a loop is not in the middle of processing a read, its
\* accumulation buffer holds fewer than 8 bytes; a read returns at most 256
\* bytes, so the buffer extended by a read never exceeds 7 + 256 bytes.
C20_AccumBounded ==
    \A l \in Loops :
        /\ Settled(l) => Len(accum[l]) < 8
        /\ Len(rd[l].bytes) <= 256
        /\ Len(accum[l] \o rd[l].bytes) <= 7 + 256

\* C20 witness: 7 + 256 bytes of noise and 7 bytes of a frame were read and
\* processed and the buffer holds 7 bytes, the most it can: the start of the
\* frame still to be completed.
C20_Witness ==
    /\ Settled(1) /\ lpc[1] = "check"
    /\ Delivered(1) = 7 + 256 + 7
    /\ Len(accum[1]) = 7
    /\ accum[1][1] = SENTINEL

(***************************************************************************)
(* One session: the foreground's connects, disconnects and writes, and the *)
(* read loops                                                              *)
(***************************************************************************)
\* set_light called by the foreground; the port takes the packet in one
\* write() or fails
ForegroundWrites ==
    \/ \E s \in LightSettings : set_light(Foreground, s[1], s[2])
    \/ WriteAll(Foreground, Len(wbuf[Foreground]))
    \/ WriteAllFail(Foreground)
    \/ WriteFlush(Foreground)
    \/ WriteFlushFail(Foreground)

SessionNext == LifecycleNext \/ ForegroundWrites \/ LoopsNext

SpecSession == Init /\ [][SessionNext]_vars

\* the read loop of the stored handle has ended on an I/O error
LoopOfPortFailed == \E l \in Loops : port = Some(l) /\ lpc[l] = "failed"
\* a step of connect or disconnect that assigns the stored handle
AssignsPort ==
    \/ pc[Foreground] = "store" /\ pc'[Foreground] = "spawn"
    \/ pc[Foreground] = "drop" /\ pc'[Foreground] = "idle"
\* a step of some read loop
LoopMoves == lpc' # lpc \/ rd' # rd \/ accum' # accum \/ events' # events
\* caller c enters write
WriteStarts(c) == pc[c] = "idle" /\ wcall'[c] # wcall[c]

\* C19: is_connected() is true exactly when a port handle is stored; the
\* stored handle changes only in connect and disconnect and no step of a read
\* loop changes it; so once the loop of the stored handle has ended on an
\* I/O error, having published "serial-disconnected", is_connected() is still
\* true and a write goes to the port (it takes the lock and starts write_all
\* rather than return "Port not open") until disconnect or connect replaces
\* the handle.
C19_IsConnectedFollowsHandle ==
    /\ [](/\ is_connected <=> (\E h \in 1 .. MaxConnects : port = Some(h))
          /\ \A l \in Loops :
                (port = Some(l) /\ lpc[l] = "failed") =>
                    /\ is_connected
                    /\ \E i \in 1 .. Len(events) : events[i] = SerialDisconnected(l))
    /\ [][/\ port' # port => AssignsPort
          /\ LoopMoves => port' = port
          /\ \A c \in Callers :
                (WriteStarts(c) /\ LoopOfPortFailed) =>
                    /\ pc'[c] = "write_all"
                    /\ wbuf'[c] # <<>>
                    /\ ret'[c] = ret[c]]_vars

\* C19 witness: the loop of the stored handle has ended on a read error and
\* published "serial-disconnected"; the handle is still stored and a write
\* has sent a whole command to the port and returned Ok.
C19_Witness ==
    /\ port = Some(1) /\ lpc[1] = "failed"
    /\ events = << SerialDisconnected(1) >>
    /\ is_connected
    /\ pc[Foreground] = "idle"
    /\ ret[Foreground] = [op |-> "write", res |-> "Ok"]
    /\ Len(wire) = FRAME_LEN

====
